---- MODULE Spec2Model ----
(***************************************************************************)
(* A model of the subtree propagation engine of cpp.react and of the event *)
(* nodes that run on it.                                                   *)
(*                                                                         *)
(* The node record (flags, ready count, levels) and the event nodes        *)
(* (SetCurrentTurn, AddInput, ApplyInput, the Tick functions) are          *)
(* translated from include/react/engine/SubtreeEngine.h and                *)
(* include/react/detail/graph/EventNodes.h.  The bodies of the engine      *)
(* hooks (OnInputChange, OnNodePulse, OnNodeIdlePulse, Propagate,          *)
(* OnDynamicNodeAttach, ...) are declared in SubtreeEngine.h but defined   *)
(* in a file that is not part of the sources at hand; they are modelled    *)
(* from the specification's section 4 and marked as such.                  *)
(***************************************************************************)
EXTENDS Integers, Sequences, FiniteSets, TLC

(* ------------------------------ bounds -------------------------------- *)

\* Number of turns a behaviour runs.
MaxTurns == 3

\* AddInput calls in one behaviour, over all event sources.
MaxInputs == 3

\* Runs of one vertex in one turn (a cap on the per-turn Tick counter).
MaxTicks == 3

\* Predecessors of the vertex whose ready count is exercised on its own.
MaxPreds == 5

(* ------------------------- program constants -------------------------- *)

\* readyCount_ is an atomic<uint16_t>: arithmetic is modulo 2^16.
UInt16Range == 65536

\* curTurnId_ starts as (std::numeric_limits<uint>::max)(), 2^32 - 1; held
\* here as the same bit pattern read as a signed 32 bit integer.
UIntMax == -1

(* ------------------------------ graphs -------------------------------- *)

Nodes == 1..6

\* Event values; the filter operations below keep KeepVal and drop the rest.
Vals == {1, 2}
KeepVal == {2}

\* kind: "src"  EventSourceNode            (input vertex)
\*       "var"  input signal               (outer of a flatten, dep of a synced node)
\*       "op"   EventOpNode over deps; filt selects EventFilterOp, else EventMergeOp
\*       "flat" EventFlattenNode(outer, deps[1] as the initial inner)
\*       "sync" SyncedEventTransformNode(deps[1] as source, outer as dep signal)
\*       "none" the vertex is not constructed
NodeDef(k, d, f, o) == [kind |-> k, deps |-> d, filt |-> f, outer |-> o]

NoNode == NodeDef("none", <<>>, FALSE, 0)

\* A -> B, A -> C, B -> D, C -> D, D -> E, A -> E; B filters.
Diamond ==
    <<NodeDef("src", <<>>, FALSE, 0), NodeDef("op", <<1>>, TRUE, 0),
      NodeDef("op", <<1>>, FALSE, 0), NodeDef("op", <<2, 3>>, FALSE, 0),
      NodeDef("op", <<4, 1>>, FALSE, 0), NoNode>>

\* A -> B -> C -> E, A -> X -> D, C -> D; B filters (idle pulse cut at C).
CutJoin ==
    <<NodeDef("src", <<>>, FALSE, 0), NodeDef("op", <<1>>, TRUE, 0),
      NodeDef("op", <<2>>, FALSE, 0), NodeDef("op", <<1>>, FALSE, 0),
      NodeDef("op", <<3, 4>>, FALSE, 0), NodeDef("op", <<3>>, FALSE, 0)>>

\* Two sources merged, then filtered.
TwoSrc ==
    <<NodeDef("src", <<>>, FALSE, 0), NodeDef("src", <<>>, FALSE, 0),
      NodeDef("op", <<1, 2>>, FALSE, 0), NodeDef("op", <<3>>, TRUE, 0),
      NoNode, NoNode>>

\* Outer signal O (1) designates I1 (2, level 0) or I2 (4, level 1);
\* F (5) flattens it, D (6) merges F and the source X (3).
Flatten ==
    <<NodeDef("var", <<>>, FALSE, 0), NodeDef("src", <<>>, FALSE, 0),
      NodeDef("src", <<>>, FALSE, 0), NodeDef("op", <<3>>, FALSE, 0),
      NodeDef("flat", <<2>>, FALSE, 1), NodeDef("op", <<5, 3>>, FALSE, 0)>>

\* A synced transform of source E (2) with dep signal O (1), then an op.
Synced ==
    <<NodeDef("var", <<>>, FALSE, 0), NodeDef("src", <<>>, FALSE, 0),
      NodeDef("sync", <<2>>, FALSE, 1), NodeDef("op", <<3>>, FALSE, 0),
      NoNode, NoNode>>

Shapes ==
    [diamond |-> Diamond, cutjoin |-> CutJoin, twosrc |-> TwoSrc,
     flatten |-> Flatten, synced |-> Synced]

ShapeNames == DOMAIN Shapes

\* The values an input signal can take: the event streams a flatten can
\* switch between (for a synced node any token does).
SigVals == {2, 4}

(* ------------------------------ state --------------------------------- *)

VARIABLES
    shape,          \* the graph under construction / constructed
    built,          \* number of vertices constructed so far
    pc,             \* "build", "idle", "admit", "mark", "loop", "exec"
    turnId,         \* id of the current (or last) turn
    cursor,         \* admission: inputs with id < cursor have been applied
    added,          \* AddInput calls so far
    sigNext,        \* value an input signal takes at its next admission
    snap,           \* the state in which the current turn began
    sequential,     \* no two Ticks of the turn overlapped so far
    pending,        \* AddInput was called since the last turn began
    idleRun,        \* consecutive turns, up to the current one, begun with no input
    abortedTurn,    \* id of the last turn a failing transform aborted, 0 if none
    lastCall,       \* arguments of the last direct call of SetCurrentTurn
    callResult,     \* results of the direct calls of Inc/DecReadyCount, per caller
    \* --- event nodes (EventNodes.h) ---
    events,         \* events_
    curTurnId,      \* curTurnId_
    changedFlag,    \* EventSourceNode::changedFlag_
    sigVal,         \* value of an input signal (outer_->ValueRef())
    inner,          \* EventFlattenNode::inner_
    \* --- engine node record (SubtreeEngine.h, class Node) ---
    Successors, Level, NewLevel, WaitCount, readyCount,
    queued, marked, changed, repeated, shouldUpdate,
    \* --- engine (SubtreeEngine.h, class EngineBase) ---
    scheduledNodes, \* set of <<vertex, level at push>>
    subtreeRoots,   \* inputs changed in this turn
    workSet,        \* the level working set being executed
    wpc,            \* per vertex: "none", "tick", "pulse", "idle", "done"
    \* --- history of the current turn ---
    tickCount,      \* Tick invocations per vertex
    hookCount,      \* pulse and idle-pulse hooks called per vertex
    clearCount,     \* events_.clear() calls made by SetCurrentTurn per vertex
    reenqCount,     \* re-enqueues per vertex
    wasRepeated,    \* vertices that were flagged repeated
    turnMarked,     \* vertices marked by the mark phase
    settled,        \* vertices that pulsed, idle-pulsed or were skipped
    tickedDone,     \* vertices whose Tick has returned
    glitches,       \* <<v, p>>: v Ticked before its marked predecessor p had Ticked
    unsettledTicks, \* <<v, p>>: as glitches, and p had not been skipped either
    readTags,       \* turn tags of the events observed by reads
    readerCleared   \* a reader's SetCurrentTurn emptied a stale buffer

ctlVars ==
    <<shape, built, pc, turnId, cursor, added, sigNext, snap, sequential, pending,
      idleRun, abortedTurn, lastCall, callResult>>

nodeVars ==
    <<events, curTurnId, changedFlag, sigVal, inner, Successors, Level, NewLevel,
      WaitCount, readyCount, queued, marked, changed, repeated, shouldUpdate,
      scheduledNodes, subtreeRoots, workSet, wpc, tickCount, hookCount, clearCount,
      reenqCount,
      wasRepeated, turnMarked, settled, tickedDone, glitches, unsettledTicks,
      readTags, readerCleared>>

vars == <<ctlVars, nodeVars>>

\* The node and engine state as one record, for the operators below.
St ==
    [events |-> events, curTurnId |-> curTurnId, changedFlag |-> changedFlag,
     sigVal |-> sigVal, inner |-> inner, Successors |-> Successors,
     Level |-> Level, NewLevel |-> NewLevel, WaitCount |-> WaitCount,
     readyCount |-> readyCount, queued |-> queued, marked |-> marked,
     changed |-> changed, repeated |-> repeated, shouldUpdate |-> shouldUpdate,
     scheduledNodes |-> scheduledNodes, subtreeRoots |-> subtreeRoots,
     workSet |-> workSet, wpc |-> wpc, tickCount |-> tickCount,
     hookCount |-> hookCount, clearCount |-> clearCount,
     reenqCount |-> reenqCount, wasRepeated |-> wasRepeated,
     turnMarked |-> turnMarked, settled |-> settled, tickedDone |-> tickedDone,
     glitches |-> glitches, unsettledTicks |-> unsettledTicks,
     readTags |-> readTags, readerCleared |-> readerCleared]

Commit(S) ==
    /\ events' = S.events
    /\ curTurnId' = S.curTurnId
    /\ changedFlag' = S.changedFlag
    /\ sigVal' = S.sigVal
    /\ inner' = S.inner
    /\ Successors' = S.Successors
    /\ Level' = S.Level
    /\ NewLevel' = S.NewLevel
    /\ WaitCount' = S.WaitCount
    /\ readyCount' = S.readyCount
    /\ queued' = S.queued
    /\ marked' = S.marked
    /\ changed' = S.changed
    /\ repeated' = S.repeated
    /\ shouldUpdate' = S.shouldUpdate
    /\ scheduledNodes' = S.scheduledNodes
    /\ subtreeRoots' = S.subtreeRoots
    /\ workSet' = S.workSet
    /\ wpc' = S.wpc
    /\ tickCount' = S.tickCount
    /\ hookCount' = S.hookCount
    /\ clearCount' = S.clearCount
    /\ reenqCount' = S.reenqCount
    /\ wasRepeated' = S.wasRepeated
    /\ turnMarked' = S.turnMarked
    /\ settled' = S.settled
    /\ tickedDone' = S.tickedDone
    /\ glitches' = S.glitches
    /\ unsettledTicks' = S.unsettledTicks
    /\ readTags' = S.readTags
    /\ readerCleared' = S.readerCleared

Def(v) == Shapes[shape][v]

Max(A) == CHOOSE x \in A : \A y \in A : y <= x
Min(A) == CHOOSE x \in A : \A y \in A : x <= y

SeqSet(s) == {s[i] : i \in 1..Len(s)}

SuccSet(S, v) == SeqSet(S.Successors[v])

Preds(S, v) == {p \in Nodes : v \in SuccSet(S, p)}

(* --------------------- class Node (SubtreeEngine.h) -------------------- *)

\* A queue key that ignores the level (every vertex in one level set).
GetLevelFunctorFlat(S, x) == 0

\* A queue key read from the pending NewLevel field instead of Level.
GetLevelFunctorNewLevel(S, x) == S.NewLevel[x]

\* GetLevelFunctor: the key of the topological queue is the vertex's Level.
GetLevelFunctor(S, x) == S.Level[x]

\* A SetQueuedFlag that leaves the flag as it is.
KeepQueuedFlag(S, x) == S

\* Node::SetQueuedFlag.
SetQueuedFlag(S, x) == [S EXCEPT !.queued[x] = TRUE]

\* Node::SetReadyCount: an int stored into the 16 bit counter.
SetReadyCount(c) == c % UInt16Range

\* Node::IncReadyCount on a counter holding c, with WaitCount w:
\* fetch_add(1), and "more to wait for" iff the old value < WaitCount - 1.
IncReadyCount(c, w) ==
    [count |-> (c + 1) % UInt16Range, more |-> c < w - 1]

\* A DecReadyCount that compares the old value with 0.
DecReadyCountZero(c) ==
    [count |-> (c + UInt16Range - 1) % UInt16Range, more |-> c > 0]

\* Node::DecReadyCount on a counter holding c: fetch_sub(1), and "more to
\* wait for" iff the old value > 1.  The counter is unsigned: 0 - 1 wraps.
DecReadyCount(c) ==
    [count |-> (c + UInt16Range - 1) % UInt16Range, more |-> c > 1]

(* -------------------- topological queue (section 4.1) ------------------ *)

\* Push, idempotent on a vertex whose queued flag is set (the caller's check).
Push(S, s) ==
    IF S.queued[s] THEN S
    ELSE [SetQueuedFlag(S, s) EXCEPT
              !.scheduledNodes = @ \cup {<<s, GetLevelFunctor(S, s)>>}]

\* Re-enqueue at the vertex's (new) level with repeated set; the vertex may be
\* mid-execution or queued already, and the queue does not detect duplicates.
RePush(S, s) ==
    [SetQueuedFlag(S, s) EXCEPT
              !.repeated[s] = TRUE,
              !.scheduledNodes = @ \cup {<<s, GetLevelFunctor(S, s)>>},
              !.reenqCount[s] = @ + 1,
              !.wasRepeated = @ \cup {s}]

\* Fetch-next-level: all entries at the minimum level become the working set.
FetchNextLevel(S) ==
    LET minL == Min({e[2] : e \in S.scheduledNodes})
        W == {e[1] : e \in {x \in S.scheduledNodes : x[2] = minL}}
    IN [S EXCEPT !.scheduledNodes = {e \in @ : e[2] # minL},
                 !.workSet = W,
                 !.wpc = [v \in Nodes |-> IF v \in W THEN "tick" ELSE "none"]]

(* ------------------ EventStreamNode (EventNodes.h) --------------------- *)

\* A SetCurrentTurn that records the turn but leaves the buffer as it is.
SetCurrentTurnNoClear(S, v, t, forceUpdate, noClear) ==
    IF S.curTurnId[v] # t \/ forceUpdate
    THEN [S EXCEPT !.curTurnId[v] = t]
    ELSE S

\* A SetCurrentTurn that does not look at forceUpdate.
SetCurrentTurnNoForce(S, v, t, forceUpdate, noClear) ==
    IF S.curTurnId[v] # t
    THEN [S EXCEPT !.curTurnId[v] = t,
                   !.events[v] = IF noClear THEN @ ELSE <<>>,
                   !.clearCount[v] = IF noClear THEN @ ELSE @ + 1]
    ELSE S

\* A SetCurrentTurn that takes its first branch on every call.
SetCurrentTurnAlways(S, v, t, forceUpdate, noClear) ==
    [S EXCEPT !.curTurnId[v] = t,
              !.events[v] = IF noClear THEN @ ELSE <<>>,
              !.clearCount[v] = IF noClear THEN @ ELSE @ + 1]

\* EventStreamNode::SetCurrentTurn(turn, forceUpdate, noClear).
SetCurrentTurn(S, v, t, forceUpdate, noClear) ==
    IF S.curTurnId[v] # t \/ forceUpdate
    THEN [S EXCEPT !.curTurnId[v] = t,
                   !.events[v] = IF noClear THEN @ ELSE <<>>,
                   !.clearCount[v] = IF noClear THEN @ ELSE @ + 1]
    ELSE S

\* A non-forced SetCurrentTurn issued by another vertex that is about to use
\* v's buffer; records whether it emptied a buffer left from an earlier turn.
Touch(S, v, t) ==
    LET S1 == SetCurrentTurn(S, v, t, FALSE, FALSE)
    IN [S1 EXCEPT !.readerCleared = @ \/ (S.events[v] # <<>> /\ S1.events[v] = <<>>)]

\* depPtr->SetCurrentTurn(turn) followed by the loop over depPtr->Events():
\* records the turn tags of the events the reader sees.
ReadDep(S, v, t) ==
    LET S1 == Touch(S, v, t)
    IN [S1 EXCEPT !.readTags = @ \cup {S1.events[v][i].t : i \in 1..Len(S1.events[v])}]

FilterPred(e) == e.v \in KeepVal

\* EventMergeOp::CollectFunctor::collect / EventFilterOp::collectImpl over the
\* deps of op node v, from dep i on, into v's own buffer (EventCollector).
RECURSIVE Collect(_, _, _, _)
Collect(S, v, i, t) ==
    IF i > Len(Def(v).deps) THEN S
    ELSE LET d == Def(v).deps[i]
             S1 == ReadDep(S, d, t)
             got == IF Def(v).filt
                        THEN SelectSeq(S1.events[d], FilterPred)
                        ELSE S1.events[d]
         IN Collect([S1 EXCEPT !.events[v] = @ \o got], v, i + 1, t)

(* ---------------- engine hooks (specification, section 4.2) ------------ *)

Append1(seq, x) == Append(seq, x)

Remove(seq, x) == SelectSeq(seq, LAMBDA y : y # x)

\* An on-node-attach that sets the level from the parent attached last.
OnNodeAttachLast(S, node, parent) ==
    [S EXCEPT !.Successors[parent] = Append1(@, node),
              !.Level[node] = S.Level[parent] + 1]

\* on-node-attach: the parent gains a successor; level = 1 + max predecessor level.
OnNodeAttach(S, node, parent) ==
    [S EXCEPT !.Successors[parent] = Append1(@, node),
              !.Level[node] = IF @ <= S.Level[parent] THEN S.Level[parent] + 1 ELSE @]

\* on-node-detach: the parent loses the successor.
OnNodeDetach(S, node, parent) ==
    [S EXCEPT !.Successors[parent] = Remove(@, node)]

\* on-input-change for one successor s of input v: should-update is set, the
\* wait-count tracker is incremented for this predecessor, s is seeded.
SeedOne(S, s) ==
    Push([S EXCEPT !.shouldUpdate[s] = TRUE,
                   !.readyCount[s] = IncReadyCount(@, S.WaitCount[s]).count], s)

RECURSIVE SeedFan(_, _, _)
SeedFan(S, v, i) ==
    IF i > Len(S.Successors[v]) THEN S
    ELSE SeedFan(SeedOne(S, S.Successors[v][i]), v, i + 1)

\* on-input-change(v, turn).
OnInputChange(S, v) ==
    SeedFan([S EXCEPT !.changed[v] = TRUE,
                      !.subtreeRoots = @ \cup {v},
                      !.settled = @ \cup {v}], v, 1)

\* on-node-pulse for one successor s: should-update is set, the wait-count is
\* decremented; s is pushed when the count reaches zero and s is not queued.
PulseOne(S, s) ==
    LET d == DecReadyCount(S.readyCount[s])
        S1 == [S EXCEPT !.shouldUpdate[s] = TRUE, !.readyCount[s] = d.count]
    IN IF d.more THEN S1 ELSE Push(S1, s)

RECURSIVE PulseFan(_, _, _)
PulseFan(S, v, i) ==
    IF i > Len(S.Successors[v]) THEN S
    ELSE PulseFan(PulseOne(S, S.Successors[v][i]), v, i + 1)

\* on-node-pulse(v, turn).
OnNodePulse(S, v) ==
    PulseFan([S EXCEPT !.changed[v] = TRUE, !.settled = @ \cup {v}], v, 1)

\* on-node-idle-pulse for one successor s: the wait-count is decremented; on
\* zero s is released: pushed if a predecessor pulsed (should-update), else
\* skipped and treated as settled, which releases its own successors in turn.
RECURSIVE IdleFan(_, _, _)
IdleOne(S, s) ==
    LET d == DecReadyCount(S.readyCount[s])
        S1 == [S EXCEPT !.readyCount[s] = d.count]
    IN IF d.more THEN S1
       ELSE IF S1.shouldUpdate[s] THEN Push(S1, s)
       ELSE IdleFan([S1 EXCEPT !.settled = @ \cup {s}], s, 1)

IdleFan(S, v, i) ==
    IF i > Len(S.Successors[v]) THEN S
    ELSE IdleFan(IdleOne(S, S.Successors[v][i]), v, i + 1)

\* on-node-idle-pulse(v, turn): changed is not set.
OnNodeIdlePulse(S, v) ==
    IdleFan([S EXCEPT !.settled = @ \cup {v}], v, 1)

\* The vertices reachable from the set F along successor edges (F included).
RECURSIVE Reach(_, _)
Reach(S, F) ==
    LET N == F \cup UNION {SuccSet(S, x) : x \in F}
    IN IF N = F THEN F ELSE Reach(S, N)

Descendants(S, R) == Reach(S, UNION {SuccSet(S, r) : r \in R})

\* Marking phase: BFS from the changed inputs along successor edges; every
\* vertex reached is marked and its wait-count is the number of its marked
\* predecessors.
markSubtree(S) ==
    LET M == Descendants(S, S.subtreeRoots)
        cnt(v) == Cardinality(Preds(S, v) \cap M)
    IN [S EXCEPT !.marked = [v \in Nodes |-> v \in M],
                 !.WaitCount = [v \in Nodes |-> IF v \in M THEN cnt(v) ELSE @[v]],
                 !.readyCount = [v \in Nodes |->
                                    IF v \in M THEN SetReadyCount(cnt(v)) ELSE @[v]],
                 !.turnMarked = M]

\* 1 + max predecessor level of d, the predecessors inside D taken at their
\* recomputed level.
RECURSIVE ExactLevel(_, _, _)
ExactLevel(S, D, d) ==
    LET P == Preds(S, d)
    IN IF P = {} THEN 0
       ELSE 1 + Max({IF p \in D THEN ExactLevel(S, D, p) ELSE S.Level[p] : p \in P})

RECURSIVE RePushAll(_, _)
RePushAll(S, Q) ==
    IF Q = {} THEN S
    ELSE LET d == Min(Q) IN RePushAll(RePush(S, d), Q \ {d})

\* invalidate-successors: every descendant of node gets level 1 + max(pred
\* level); one whose level changes while it is queued is re-pushed at its new
\* level, repeated set (its entry at the old level stays in the queue).
invalidateSuccessors(S, node) ==
    LET D == Descendants(S, {node})
        nl == [d \in Nodes |-> IF d \in D THEN ExactLevel(S, D, d) ELSE S.Level[d]]
        moved == {d \in D : nl[d] # S.Level[d]}
        S1 == [S EXCEPT !.Level = nl,
                        !.NewLevel = [d \in Nodes |-> IF d \in moved THEN nl[d] ELSE @[d]]]
    IN RePushAll(S1, {d \in moved : S.queued[d]})

\* on-dynamic-node-detach(child, oldParent, turn).
OnDynamicNodeDetach(S, node, parent) ==
    [S EXCEPT !.Successors[parent] = Remove(@, node)]

\* on-dynamic-node-attach(child, newParent, turn): the child joins the new
\* parent's successors; a stale level (newParent.level >= child.level) is
\* raised to newParent.level + 1; should-update is set and the child is
\* re-enqueued; a raised level invalidates the child's successors.
OnDynamicNodeAttach(S, node, parent) ==
    LET S1 == [S EXCEPT !.Successors[parent] = Append1(@, node)]
        stale == S1.Level[parent] >= S1.Level[node]
        S2 == IF stale
                 THEN [S1 EXCEPT !.NewLevel[node] = S1.Level[parent] + 1,
                                 !.Level[node] = S1.Level[parent] + 1]
                 ELSE S1
        S3 == RePush([S2 EXCEPT !.shouldUpdate[node] = TRUE], node)
    IN IF stale THEN invalidateSuccessors(S3, node) ELSE S3

(* ------------------- event nodes: input and Tick ----------------------- *)

\* EventSourceNode::AddInput(v); the event belongs to the turn t that admits it.
AddInput(S, v, val, t) ==
    LET S1 == IF S.changedFlag[v]
                 THEN [S EXCEPT !.changedFlag[v] = FALSE, !.events[v] = <<>>]
                 ELSE S
    IN [S1 EXCEPT !.events[v] = Append(@, [v |-> val, t |-> t])]

\* An admission test that does not look at changedFlag_.
HasNewInputStale(S, v) == Len(S.events[v]) > 0

\* The condition under which EventSourceNode::ApplyInput admits its input.
HasNewInput(S, v) == Len(S.events[v]) > 0 /\ ~S.changedFlag[v]

\* An ApplyInput that reports a change whether or not there is new input.
ApplyInputUnchecked(S, v, t) ==
    OnInputChange([SetCurrentTurn(S, v, t, TRUE, TRUE)
                       EXCEPT !.changedFlag[v] = TRUE], v)

\* An ApplyInput whose SetCurrentTurn is called without noClear.
ApplyInputClearing(S, v, t) ==
    IF HasNewInput(S, v)
    THEN OnInputChange([SetCurrentTurn(S, v, t, TRUE, FALSE)
                            EXCEPT !.changedFlag[v] = TRUE], v)
    ELSE S

\* EventSourceNode::ApplyInput(turn); its result is HasNewInput.
ApplyInput(S, v, t) ==
    IF HasNewInput(S, v)
    THEN OnInputChange([SetCurrentTurn(S, v, t, TRUE, TRUE)
                            EXCEPT !.changedFlag[v] = TRUE], v)
    ELSE S

\* An input signal takes its new value and reports the change.
ApplySignalInput(S, v, new) ==
    IF new # S.sigVal[v]
    THEN OnInputChange([S EXCEPT !.sigVal[v] = new], v)
    ELSE S

\* A Tick that ends in on-node-pulse whether or not it produced events.
PulseAlways(S, v) == [S EXCEPT !.wpc[v] = "pulse"]

\* The end of a Tick that computed its buffer: on-node-pulse iff the buffer is
\* not empty, else on-node-idle-pulse.  The hook runs as the Tick's next step.
PulseOrIdle(S, v) ==
    [S EXCEPT !.wpc[v] = IF S.events[v] # <<>> THEN "pulse" ELSE "idle"]

\* A Tick that returns without calling a pulse hook.
Returned(S, v) ==
    [S EXCEPT !.wpc[v] = "done", !.tickedDone = @ \cup {v}]

\* EventOpNode::Tick up to the pulse hook.
TickOp(S, v, t) ==
    PulseOrIdle(Collect(SetCurrentTurn(S, v, t, TRUE, FALSE), v, 1, t), v)

\* A flatten Tick that moves its edge in the successor lists itself, without
\* the engine's dynamic hooks.
TickFlattenStaticAttach(S, v, t) ==
    LET S1 == SetCurrentTurn(S, v, t, TRUE, FALSE)
        S2 == Touch(S1, S1.inner[v], t)
        oldInner == S2.inner[v]
        newInner == S2.sigVal[Def(v).outer]
    IN IF newInner # oldInner
       THEN LET S3 == Touch(S2, newInner, t)
                S4 == [S3 EXCEPT !.inner[v] = newInner,
                                 !.Successors[oldInner] = Remove(@, v),
                                 !.Successors[newInner] = Append1(@, v)]
            IN Returned(S4, v)
       ELSE LET S3 == ReadDep(S2, oldInner, t)
            IN PulseOrIdle([S3 EXCEPT !.events[v] = @ \o S3.events[oldInner]], v)

\* A flatten Tick that passes the old and the new inner to the wrong hooks.
TickFlattenSwapped(S, v, t) ==
    LET S1 == SetCurrentTurn(S, v, t, TRUE, FALSE)
        S2 == Touch(S1, S1.inner[v], t)
        oldInner == S2.inner[v]
        newInner == S2.sigVal[Def(v).outer]
    IN IF newInner # oldInner
       THEN LET S3 == Touch(S2, newInner, t)
                S4 == [S3 EXCEPT !.inner[v] = newInner]
                S5 == OnDynamicNodeDetach(S4, v, newInner)
                S6 == OnDynamicNodeAttach(S5, v, oldInner)
            IN Returned(S6, v)
       ELSE LET S3 == ReadDep(S2, oldInner, t)
            IN PulseOrIdle([S3 EXCEPT !.events[v] = @ \o S3.events[oldInner]], v)

\* A flatten Tick that re-attaches but does not store the new inner stream.
TickFlattenKeepInner(S, v, t) ==
    LET S1 == SetCurrentTurn(S, v, t, TRUE, FALSE)
        S2 == Touch(S1, S1.inner[v], t)
        oldInner == S2.inner[v]
        newInner == S2.sigVal[Def(v).outer]
    IN IF newInner # oldInner
       THEN LET S3 == Touch(S2, newInner, t)
                S5 == OnDynamicNodeDetach(S3, v, oldInner)
                S6 == OnDynamicNodeAttach(S5, v, newInner)
            IN Returned(S6, v)
       ELSE LET S3 == ReadDep(S2, oldInner, t)
            IN PulseOrIdle([S3 EXCEPT !.events[v] = @ \o S3.events[oldInner]], v)

\* A flatten Tick that goes on to its pulse hook after a re-attachment.
TickFlattenNoReturn(S, v, t) ==
    LET S1 == SetCurrentTurn(S, v, t, TRUE, FALSE)
        S2 == Touch(S1, S1.inner[v], t)
        oldInner == S2.inner[v]
        newInner == S2.sigVal[Def(v).outer]
    IN IF newInner # oldInner
       THEN LET S3 == Touch(S2, newInner, t)
                S4 == [S3 EXCEPT !.inner[v] = newInner]
                S5 == OnDynamicNodeDetach(S4, v, oldInner)
                S6 == OnDynamicNodeAttach(S5, v, newInner)
            IN PulseOrIdle(S6, v)
       ELSE LET S3 == ReadDep(S2, oldInner, t)
            IN PulseOrIdle([S3 EXCEPT !.events[v] = @ \o S3.events[oldInner]], v)

\* A flatten Tick that reads the inner streams without calling their
\* SetCurrentTurn first.
TickFlattenNoTouch(S, v, t) ==
    LET S1 == SetCurrentTurn(S, v, t, TRUE, FALSE)
        oldInner == S1.inner[v]
        newInner == S1.sigVal[Def(v).outer]
    IN IF newInner # oldInner
       THEN LET S4 == [S1 EXCEPT !.inner[v] = newInner]
                S5 == OnDynamicNodeDetach(S4, v, oldInner)
                S6 == OnDynamicNodeAttach(S5, v, newInner)
            IN Returned(S6, v)
       ELSE PulseOrIdle([S1 EXCEPT !.events[v] = @ \o S1.events[oldInner]], v)

\* EventFlattenNode::Tick up to the pulse hook, or through its dynamic
\* re-attachment.
TickFlatten(S, v, t) ==
    LET S1 == SetCurrentTurn(S, v, t, TRUE, FALSE)
        S2 == Touch(S1, S1.inner[v], t)
        oldInner == S2.inner[v]
        newInner == S2.sigVal[Def(v).outer]
    IN IF newInner # oldInner
       THEN LET S3 == Touch(S2, newInner, t)
                S4 == [S3 EXCEPT !.inner[v] = newInner]
                S5 == OnDynamicNodeDetach(S4, v, oldInner)
                S6 == OnDynamicNodeAttach(S5, v, newInner)
            IN Returned(S6, v)
       ELSE LET S3 == ReadDep(S2, oldInner, t)
            IN PulseOrIdle([S3 EXCEPT !.events[v] = @ \o S3.events[oldInner]], v)

\* SyncedEventTransformNode::Tick (and SyncedEventFilterNode::Tick with a
\* filter that accepts) up to the pulse hook; func keeps the event.
TickSynced(S, v, t) ==
    LET S1 == SetCurrentTurn(S, v, t, TRUE, FALSE)
        src == Def(v).deps[1]
        S2 == ReadDep(S1, src, t)
    IN PulseOrIdle([S2 EXCEPT !.events[v] = @ \o S2.events[src]], v)

\* IReactiveNode::Tick, dispatched on the node class.
Tick(S, v, t) ==
    CASE Def(v).kind = "op" -> TickOp(S, v, t)
      [] Def(v).kind = "flat" -> TickFlatten(S, v, t)
      [] Def(v).kind = "sync" -> TickSynced(S, v, t)
      [] OTHER -> Returned(S, v)

(* --------------------- propagation (section 4.2) ----------------------- *)

\* The engine starts a vertex of the working set: repeated clears on
\* processing; then the vertex's Tick runs.
Execute(S, v, t) ==
    LET MP == {p \in Preds(S, v) : S.marked[p]}
        S1 == [S EXCEPT !.tickCount[v] = @ + 1,
                        !.repeated[v] = FALSE,
                        !.glitches = @ \cup {<<v, p>> : p \in MP \ S.tickedDone},
                        !.unsettledTicks =
                            @ \cup {<<v, p>> : p \in MP \ (S.tickedDone \cup S.settled)}]
    IN Tick(S1, v, t)

\* The pulse hook the Tick ended with, and the Tick's return.
RunHook(S, v) ==
    LET S1 == IF S.wpc[v] = "pulse" THEN OnNodePulse(S, v) ELSE OnNodeIdlePulse(S, v)
    IN Returned([S1 EXCEPT !.hookCount[v] = @ + 1], v)

\* The user-supplied filter is called: the op node's first dep holds an event.
FilterCalled(S, v, t) ==
    /\ Def(v).kind = "op" /\ Def(v).filt
    /\ Touch(S, Def(v).deps[1], t).events[Def(v).deps[1]] # <<>>

\* EventOpNode::Tick of a filter node whose predicate fails on its first call:
\* the node's buffer was cleared, the dep was brought to the turn, nothing was
\* collected and no pulse hook is reached.
TickThrows(S, v, t) ==
    LET S1 == [S EXCEPT !.tickCount[v] = @ + 1, !.repeated[v] = FALSE]
    IN ReadDep(SetCurrentTurn(S1, v, t, TRUE, FALSE), Def(v).deps[1], t)

\* The failure leaves propagate: the tasks of the level set are gone and the
\* turn's vertices are not released (section 4.6).
Unwind(S) ==
    [S EXCEPT !.workSet = {}, !.wpc = [v \in Nodes |-> "none"]]

\* A join that waits only until every task of the level set has started.
LevelCompleteStarted(S) == \A v \in S.workSet : S.wpc[v] # "tick"

\* The join of the level set: every spawned Tick has returned.
LevelComplete(S) == \A v \in S.workSet : S.wpc[v] = "done"

\* Step 3 of the loop: the queued flag of every processed vertex is cleared.
LevelDone(S) ==
    [S EXCEPT !.queued = [v \in Nodes |-> IF v \in S.workSet THEN FALSE ELSE @[v]],
              !.workSet = {},
              !.wpc = [v \in Nodes |-> "none"]]

\* Turn completion: the marked set is released.
ReleaseTurn(S) ==
    [S EXCEPT !.marked = [v \in Nodes |-> FALSE],
              !.changed = [v \in Nodes |-> FALSE],
              !.shouldUpdate = [v \in Nodes |-> FALSE],
              !.subtreeRoots = {}]

\* The history variables at the start of a turn.
FreshHistory(S) ==
    [S EXCEPT !.tickCount = [v \in Nodes |-> 0],
              !.hookCount = [v \in Nodes |-> 0],
              !.clearCount = [v \in Nodes |-> 0],
              !.reenqCount = [v \in Nodes |-> 0],
              !.wasRepeated = {},
              !.turnMarked = {},
              !.settled = {},
              !.tickedDone = {},
              !.glitches = {},
              !.unsettledTicks = {},
              !.readTags = {},
              !.readerCleared = FALSE]

(* ------------------------------ actions -------------------------------- *)

\* The state of a graph none of whose vertices is constructed yet.
InitState ==
    [events |-> [v \in Nodes |-> <<>>],
     curTurnId |-> [v \in Nodes |-> UIntMax],
     changedFlag |-> [v \in Nodes |-> FALSE],
     sigVal |-> [v \in Nodes |-> 2],
     inner |-> [v \in Nodes |-> 0],
     Successors |-> [v \in Nodes |-> <<>>],
     Level |-> [v \in Nodes |-> 0],
     NewLevel |-> [v \in Nodes |-> 0],
     WaitCount |-> [v \in Nodes |-> 0],
     readyCount |-> [v \in Nodes |-> 0],
     queued |-> [v \in Nodes |-> FALSE],
     marked |-> [v \in Nodes |-> FALSE],
     changed |-> [v \in Nodes |-> FALSE],
     repeated |-> [v \in Nodes |-> FALSE],
     shouldUpdate |-> [v \in Nodes |-> FALSE],
     scheduledNodes |-> {},
     subtreeRoots |-> {},
     workSet |-> {},
     wpc |-> [v \in Nodes |-> "none"],
     tickCount |-> [v \in Nodes |-> 0],
     hookCount |-> [v \in Nodes |-> 0],
     clearCount |-> [v \in Nodes |-> 0],
     reenqCount |-> [v \in Nodes |-> 0],
     wasRepeated |-> {},
     turnMarked |-> {},
     settled |-> {},
     tickedDone |-> {},
     glitches |-> {},
     unsettledTicks |-> {},
     readTags |-> {},
     readerCleared |-> FALSE]

NoCall == [v |-> 0, forceUpdate |-> FALSE, noClear |-> FALSE]

Init ==
    /\ shape \in ShapeNames
    /\ built = 0
    /\ pc = "build"
    /\ turnId = 0
    /\ cursor = 1
    /\ added = 0
    /\ sigNext = [v \in Nodes |-> 2]
    /\ snap = InitState
    /\ sequential = TRUE
    /\ pending = FALSE
    /\ idleRun = 0
    /\ abortedTurn = 0
    /\ lastCall = NoCall
    /\ callResult = <<>>
    /\ events = InitState.events
    /\ curTurnId = InitState.curTurnId
    /\ changedFlag = InitState.changedFlag
    /\ sigVal = InitState.sigVal
    /\ inner = InitState.inner
    /\ Successors = InitState.Successors
    /\ Level = InitState.Level
    /\ NewLevel = InitState.NewLevel
    /\ WaitCount = InitState.WaitCount
    /\ readyCount = InitState.readyCount
    /\ queued = InitState.queued
    /\ marked = InitState.marked
    /\ changed = InitState.changed
    /\ repeated = InitState.repeated
    /\ shouldUpdate = InitState.shouldUpdate
    /\ scheduledNodes = InitState.scheduledNodes
    /\ subtreeRoots = InitState.subtreeRoots
    /\ workSet = InitState.workSet
    /\ wpc = InitState.wpc
    /\ tickCount = InitState.tickCount
    /\ hookCount = InitState.hookCount
    /\ clearCount = InitState.clearCount
    /\ reenqCount = InitState.reenqCount
    /\ wasRepeated = InitState.wasRepeated
    /\ turnMarked = InitState.turnMarked
    /\ settled = InitState.settled
    /\ tickedDone = InitState.tickedDone
    /\ glitches = InitState.glitches
    /\ unsettledTicks = InitState.unsettledTicks
    /\ readTags = InitState.readTags
    /\ readerCleared = InitState.readerCleared

\* The parents a node's constructor attaches to, in the constructor's order:
\* an op node to its deps, a flatten node to outer then inner, a synced node
\* to its source and then to its dep signals.
CtorParents(v) ==
    CASE Def(v).kind = "op" -> Def(v).deps
      [] Def(v).kind = "flat" -> <<Def(v).outer, Def(v).deps[1]>>
      [] Def(v).kind = "sync" -> <<Def(v).deps[1], Def(v).outer>>
      [] OTHER -> <<>>

RECURSIVE AttachAll(_, _, _, _)
AttachAll(S, v, ps, i) ==
    IF i > Len(ps) THEN S ELSE AttachAll(OnNodeAttach(S, v, ps[i]), v, ps, i + 1)

\* The constructor of vertex v: on-node-create, then on-node-attach per parent.
Construct(S, v) ==
    LET S1 == IF Def(v).kind = "flat" THEN [S EXCEPT !.inner[v] = Def(v).deps[1]] ELSE S
    IN AttachAll(S1, v, CtorParents(v), 1)

ConstructAct ==
    /\ pc = "build"
    /\ built < Cardinality(Nodes)
    /\ Commit(Construct(St, built + 1))
    /\ built' = built + 1
    /\ pc' = IF built + 1 = Cardinality(Nodes) THEN "idle" ELSE "build"
    /\ UNCHANGED <<shape, abortedTurn, lastCall, callResult, turnId, cursor, added, sigNext, snap, sequential, pending,
                 idleRun>>

AddInputAct(v, val) ==
    /\ pc = "idle"
    /\ turnId < MaxTurns
    /\ Def(v).kind = "src"
    /\ added < MaxInputs
    /\ Commit(AddInput(St, v, val, turnId + 1))
    /\ added' = added + 1
    /\ pending' = TRUE
    /\ UNCHANGED <<shape, abortedTurn, lastCall, callResult, built, pc, turnId, cursor, sigNext, snap, sequential,
                 idleRun>>

SetSignalAct(v, x) ==
    /\ pc = "idle"
    /\ turnId < MaxTurns
    /\ Def(v).kind = "var"
    /\ sigNext[v] # x
    /\ sigNext' = [sigNext EXCEPT ![v] = x]
    /\ UNCHANGED <<shape, abortedTurn, lastCall, callResult, built, pc, turnId, cursor, added, snap, sequential,
                 pending, idleRun>>
    /\ UNCHANGED nodeVars

\* No input was submitted since the last turn began: no AddInput call, and no
\* input signal is to take a new value.
NoNewInput ==
    /\ ~pending
    /\ \A v \in Nodes : Def(v).kind = "var" => sigNext[v] = sigVal[v]

BeginTurnAct ==
    /\ pc = "idle"
    /\ turnId < MaxTurns
    /\ pending' = FALSE
    /\ idleRun' = IF NoNewInput THEN idleRun + 1 ELSE 0
    /\ turnId' = turnId + 1
    /\ pc' = "admit"
    /\ cursor' = 1
    /\ Commit(FreshHistory(St))
    /\ snap' = FreshHistory(St)
    /\ sequential' = TRUE
    /\ UNCHANGED <<shape, abortedTurn, lastCall, callResult, built, added, sigNext>>

IsInput(v) == Def(v).kind \in {"src", "var"}

\* The next input the driver applies, 0 when all have been applied.
NextInput ==
    LET R == {v \in Nodes : v >= cursor /\ IsInput(v)}
    IN IF R = {} THEN 0 ELSE Min(R)

ApplyInputAct(v) ==
    /\ pc = "admit"
    /\ v = NextInput
    /\ Def(v).kind = "src"
    /\ Commit(ApplyInput(St, v, turnId))
    /\ cursor' = v + 1
    /\ UNCHANGED <<shape, abortedTurn, lastCall, callResult, built, pc, turnId, added, sigNext, snap, sequential,
                 pending, idleRun>>

ApplySignalAct(v) ==
    /\ pc = "admit"
    /\ v = NextInput
    /\ Def(v).kind = "var"
    /\ Commit(ApplySignalInput(St, v, sigNext[v]))
    /\ cursor' = v + 1
    /\ UNCHANGED <<shape, abortedTurn, lastCall, callResult, built, pc, turnId, added, sigNext, snap, sequential,
                 pending, idleRun>>

\* Propagate begins with the marking phase.
MarkAct ==
    /\ pc = "admit"
    /\ NextInput = 0
    /\ Commit(markSubtree(St))
    /\ pc' = "loop"
    /\ UNCHANGED <<shape, abortedTurn, lastCall, callResult, built, turnId, cursor, added, sigNext, snap, sequential,
                 pending, idleRun>>

FetchAct ==
    /\ pc = "loop"
    /\ scheduledNodes # {}
    /\ Commit(FetchNextLevel(St))
    /\ pc' = "exec"
    /\ UNCHANGED <<shape, abortedTurn, lastCall, callResult, built, turnId, cursor, added, sigNext, snap, sequential,
                 pending, idleRun>>

TickAct(v) ==
    /\ pc = "exec"
    /\ wpc[v] = "tick"
    /\ tickCount[v] < MaxTicks
    /\ Commit(Execute(St, v, turnId))
    /\ sequential' = (sequential /\ \A u \in Nodes : wpc[u] \notin {"pulse", "idle"})
    /\ UNCHANGED <<shape, abortedTurn, lastCall, callResult, built, pc, turnId, cursor, added, sigNext, snap, pending,
                 idleRun>>

HookAct(v) ==
    /\ pc = "exec"
    /\ wpc[v] \in {"pulse", "idle"}
    /\ Commit(RunHook(St, v))
    /\ UNCHANGED ctlVars

LevelDoneAct ==
    /\ pc = "exec"
    /\ LevelComplete(St)
    /\ Commit(LevelDone(St))
    /\ pc' = "loop"
    /\ UNCHANGED <<shape, abortedTurn, lastCall, callResult, built, turnId, cursor, added, sigNext, snap, sequential,
                 pending, idleRun>>

EndTurnAct ==
    /\ pc = "loop"
    /\ scheduledNodes = {}
    /\ Commit(ReleaseTurn(St))
    /\ pc' = "idle"
    /\ UNCHANGED <<shape, abortedTurn, lastCall, callResult, built, turnId, cursor, added, sigNext, snap, sequential,
                 pending, idleRun>>

Next ==
    \/ ConstructAct
    \/ \E v \in Nodes, val \in Vals : AddInputAct(v, val)
    \/ \E v \in Nodes, x \in SigVals : SetSignalAct(v, x)
    \/ BeginTurnAct
    \/ \E v \in Nodes : ApplyInputAct(v)
    \/ \E v \in Nodes : ApplySignalAct(v)
    \/ MarkAct
    \/ FetchAct
    \/ \E v \in Nodes : TickAct(v)
    \/ \E v \in Nodes : HookAct(v)
    \/ LevelDoneAct
    \/ EndTurnAct

Spec == Init /\ [][Next]_vars

\* A user transform fails during the Tick of v; the tasks of the level set
\* that have started have finished, the others are cancelled.
AbortAct(v) ==
    /\ pc = "exec"
    /\ wpc[v] = "tick"
    /\ tickCount[v] < MaxTicks
    /\ FilterCalled(St, v, turnId)
    /\ \A u \in Nodes : wpc[u] \notin {"pulse", "idle"}
    /\ Commit(Unwind(TickThrows(St, v, turnId)))
    /\ pc' = "idle"
    /\ abortedTurn' = turnId
    /\ UNCHANGED <<shape, lastCall, callResult, built, turnId, cursor, added, sigNext, snap, sequential,
                 pending, idleRun>>

NextAbort ==
    \/ Next
    \/ \E v \in Nodes : AbortAct(v)

\* The engine with user transforms that can fail.
AbortSpec == Init /\ [][NextAbort]_vars

\* The steps of admission and propagate: the driving thread and the worker
\* tasks of a level set.
EngineStep ==
    \/ \E v \in Nodes : ApplyInputAct(v)
    \/ \E v \in Nodes : ApplySignalAct(v)
    \/ MarkAct
    \/ FetchAct
    \/ \E v \in Nodes : TickAct(v)
    \/ \E v \in Nodes : HookAct(v)
    \/ LevelDoneAct
    \/ EndTurnAct

\* Whether EngineStep can be taken, read off the guards of its actions:
\* admission and the propagate loop always have a next step; a level set has
\* one while a task has a run or a hook left, or all its tasks are done.
EngineStepEnabled ==
    \/ pc \in {"admit", "loop"}
    \/ /\ pc = "exec"
       /\ \/ \E v \in Nodes : wpc[v] = "tick" /\ tickCount[v] < MaxTicks
          \/ \E v \in Nodes : wpc[v] \in {"pulse", "idle"}
          \/ \A v \in workSet : wpc[v] = "done"

\* A fair scheduler: a turn that can take a step eventually takes one. This
\* is weak fairness of EngineStep, with its enabling condition written out.
Fairness == []<>(~EngineStepEnabled) \/ []<><<EngineStep>>_vars

FairSpec == Spec /\ Fairness


(* ------------------ SetCurrentTurn on its own (4.5) -------------------- *)

\* Buffers an event-stream vertex can hold when SetCurrentTurn is called.
Buffers ==
    {<<>>, <<[v |-> 1, t |-> 0]>>, <<[v |-> 1, t |-> 1], [v |-> 2, t |-> 1]>>}

\* Vertex 1 was last used in any turn, or never, and holds any buffer; vertex
\* 2 is freshly constructed; the turn of the call has any id.
SctInit ==
    /\ shape = "twosrc"
    /\ built = 0
    /\ pc = "call"
    /\ turnId \in 0..MaxTurns
    /\ cursor = 1
    /\ added = 0
    /\ sigNext = [v \in Nodes |-> 2]
    /\ snap = InitState
    /\ sequential = TRUE
    /\ pending = FALSE
    /\ idleRun = 0
    /\ abortedTurn = 0
    /\ lastCall = NoCall
    /\ callResult = <<>>
    /\ \E b \in Buffers : events = [InitState.events EXCEPT ![1] = b]
    /\ \E c \in {UIntMax} \cup (0..MaxTurns) :
           curTurnId = [InitState.curTurnId EXCEPT ![1] = c]
    /\ changedFlag = InitState.changedFlag
    /\ sigVal = InitState.sigVal
    /\ inner = InitState.inner
    /\ Successors = InitState.Successors
    /\ Level = InitState.Level
    /\ NewLevel = InitState.NewLevel
    /\ WaitCount = InitState.WaitCount
    /\ readyCount = InitState.readyCount
    /\ queued = InitState.queued
    /\ marked = InitState.marked
    /\ changed = InitState.changed
    /\ repeated = InitState.repeated
    /\ shouldUpdate = InitState.shouldUpdate
    /\ scheduledNodes = InitState.scheduledNodes
    /\ subtreeRoots = InitState.subtreeRoots
    /\ workSet = InitState.workSet
    /\ wpc = InitState.wpc
    /\ tickCount = InitState.tickCount
    /\ hookCount = InitState.hookCount
    /\ clearCount = InitState.clearCount
    /\ reenqCount = InitState.reenqCount
    /\ wasRepeated = InitState.wasRepeated
    /\ turnMarked = InitState.turnMarked
    /\ settled = InitState.settled
    /\ tickedDone = InitState.tickedDone
    /\ glitches = InitState.glitches
    /\ unsettledTicks = InitState.unsettledTicks
    /\ readTags = InitState.readTags
    /\ readerCleared = InitState.readerCleared

\* One call v->SetCurrentTurn(turn, forceUpdate, noClear); snap keeps the
\* state before the call.
SetCurrentTurnAct(v, forceUpdate, noClear) ==
    /\ pc = "call"
    /\ Commit(SetCurrentTurn(St, v, turnId, forceUpdate, noClear))
    /\ snap' = St
    /\ lastCall' = [v |-> v, forceUpdate |-> forceUpdate, noClear |-> noClear]
    /\ pc' = "called"
    /\ UNCHANGED <<shape, callResult, built, turnId, cursor, added, sigNext, sequential,
                 pending, idleRun, abortedTurn>>

SctNext ==
    \E v \in {1, 2}, forceUpdate \in BOOLEAN, noClear \in BOOLEAN :
        SetCurrentTurnAct(v, forceUpdate, noClear)

SctSpec == SctInit /\ [][SctNext]_vars

(* --------------- the ready count on its own (Node, 85-99) -------------- *)

\* The vertex whose ready count is used; its predecessors are 1..WaitCount.
RcNode == 1

\* The predecessors whose call is still to come.
PendingCalls == {p \in DOMAIN callResult : callResult[p] = "none"}

\* A vertex with k predecessors, 1 <= k <= MaxPreds.  Either its ready count
\* is still to be set to k and then decremented by each predecessor, or it is
\* 0 and incremented by each predecessor with WaitCount = k.
RcInit ==
    /\ shape = "twosrc"
    /\ built = 0
    /\ pc \in {"set", "inc"}
    /\ turnId = 0
    /\ cursor = 1
    /\ added = 0
    /\ sigNext = [v \in Nodes |-> 2]
    /\ snap = InitState
    /\ sequential = TRUE
    /\ pending = FALSE
    /\ idleRun = 0
    /\ abortedTurn = 0
    /\ lastCall = NoCall
    /\ \E k \in 1..MaxPreds :
           /\ callResult = [p \in 1..k |-> "none"]
           /\ WaitCount = [InitState.WaitCount EXCEPT ![RcNode] = k]
    /\ \E c \in {0, UInt16Range - 1} :
           readyCount = [InitState.readyCount EXCEPT
                             ![RcNode] = IF pc = "inc" THEN 0 ELSE c]
    /\ events = InitState.events
    /\ curTurnId = InitState.curTurnId
    /\ changedFlag = InitState.changedFlag
    /\ sigVal = InitState.sigVal
    /\ inner = InitState.inner
    /\ Successors = InitState.Successors
    /\ Level = InitState.Level
    /\ NewLevel = InitState.NewLevel
    /\ queued = InitState.queued
    /\ marked = InitState.marked
    /\ changed = InitState.changed
    /\ repeated = InitState.repeated
    /\ shouldUpdate = InitState.shouldUpdate
    /\ scheduledNodes = InitState.scheduledNodes
    /\ subtreeRoots = InitState.subtreeRoots
    /\ workSet = InitState.workSet
    /\ wpc = InitState.wpc
    /\ tickCount = InitState.tickCount
    /\ hookCount = InitState.hookCount
    /\ clearCount = InitState.clearCount
    /\ reenqCount = InitState.reenqCount
    /\ wasRepeated = InitState.wasRepeated
    /\ turnMarked = InitState.turnMarked
    /\ settled = InitState.settled
    /\ tickedDone = InitState.tickedDone
    /\ glitches = InitState.glitches
    /\ unsettledTicks = InitState.unsettledTicks
    /\ readTags = InitState.readTags
    /\ readerCleared = InitState.readerCleared

RcUnchanged ==
    UNCHANGED <<shape, built, turnId, cursor, added, sigNext, snap, sequential,
                pending, idleRun, abortedTurn, lastCall,
                events, curTurnId, changedFlag, sigVal, inner, Successors, Level,
                NewLevel, WaitCount, queued, marked, changed, repeated,
                shouldUpdate, scheduledNodes, subtreeRoots, workSet, wpc,
                tickCount, hookCount, clearCount, reenqCount, wasRepeated,
                turnMarked, settled, tickedDone, glitches, unsettledTicks,
                readTags, readerCleared>>

\* node.SetReadyCount(k), before any predecessor calls.
SetReadyCountAct ==
    /\ pc = "set"
    /\ readyCount' = [readyCount EXCEPT ![RcNode] = SetReadyCount(WaitCount[RcNode])]
    /\ pc' = "dec"
    /\ UNCHANGED callResult
    /\ RcUnchanged

\* Predecessor p calls node.DecReadyCount(); the fetch_sub is one atomic
\* step and the comparison uses only the value it returned.
DecReadyCountAct(p) ==
    /\ pc = "dec"
    /\ p \in PendingCalls
    /\ LET r == DecReadyCount(readyCount[RcNode])
       IN /\ readyCount' = [readyCount EXCEPT ![RcNode] = r.count]
          /\ callResult' = [callResult EXCEPT ![p] = IF r.more THEN "true" ELSE "false"]
    /\ UNCHANGED pc
    /\ RcUnchanged

\* Predecessor p calls node.IncReadyCount(); the fetch_add is one atomic
\* step and WaitCount does not change between the calls.
IncReadyCountAct(p) ==
    /\ pc = "inc"
    /\ p \in PendingCalls
    /\ LET r == IncReadyCount(readyCount[RcNode], WaitCount[RcNode])
       IN /\ readyCount' = [readyCount EXCEPT ![RcNode] = r.count]
          /\ callResult' = [callResult EXCEPT ![p] = IF r.more THEN "true" ELSE "false"]
    /\ UNCHANGED pc
    /\ RcUnchanged

RcNext ==
    \/ SetReadyCountAct
    \/ \E p \in 1..MaxPreds : DecReadyCountAct(p)
    \/ \E p \in 1..MaxPreds : IncReadyCountAct(p)

\* The calls of the predecessors of one vertex, in any order.
RcSpec == RcInit /\ [][RcNext]_vars

(* ------------------- a single-threaded reference run ------------------- *)

\* The admission phase from input v on; an input signal takes the value val[v].
RECURSIVE AdmitFrom(_, _, _, _)
AdmitFrom(S, v, val, t) ==
    IF v \notin Nodes THEN S
    ELSE AdmitFrom(CASE Def(v).kind = "src" -> ApplyInput(S, v, t)
                     [] Def(v).kind = "var" -> ApplySignalInput(S, v, val[v])
                     [] OTHER -> S,
                   v + 1, val, t)

\* The vertices W of a level working set executed one after the other in
\* ascending order, each Tick with its pulse hook before the next Tick.
RECURSIVE RunLevel(_, _, _)
RunLevel(S, W, t) ==
    IF W = {} THEN S
    ELSE LET v == Min(W)
             S1 == Execute(S, v, t)
             S2 == IF S1.wpc[v] \in {"pulse", "idle"} THEN RunHook(S1, v) ELSE S1
         IN RunLevel(S2, W \ {v}, t)

\* The propagation loop, level by level, until the queue is empty.
RECURSIVE RunLoop(_, _)
RunLoop(S, t) ==
    IF S.scheduledNodes = {} THEN ReleaseTurn(S)
    ELSE LET S1 == FetchNextLevel(S)
         IN RunLoop(LevelDone(RunLevel(S1, S1.workSet, t)), t)

\* Turn t run from the state S in which it began.
RefRun(S, val, t) == RunLoop(markSubtree(AdmitFrom(S, 1, val, t)), t)

\* The post-turn state of all vertices: levels, flags, wait-counts, edges and
\* event buffers.
PostState(S) ==
    [Level |-> S.Level, NewLevel |-> S.NewLevel, Successors |-> S.Successors,
     WaitCount |-> S.WaitCount, readyCount |-> S.readyCount,
     queued |-> S.queued, marked |-> S.marked, changed |-> S.changed,
     repeated |-> S.repeated, shouldUpdate |-> S.shouldUpdate,
     events |-> S.events, curTurnId |-> S.curTurnId,
     changedFlag |-> S.changedFlag, sigVal |-> S.sigVal, inner |-> S.inner]

(* ------------------------------ claims --------------------------------- *)

WaitCountBalance_C2 ==
    (pc = "idle" /\ turnId >= 1) => \A v \in turnMarked : readyCount[v] = 0

Freshness_C4 == readTags \subseteq {turnId}

\* In the second turn a reader's SetCurrentTurn emptied a buffer that still
\* held the events of the first turn, and events of the second turn were read.
FreshnessWitness_C4 == turnId = 2 /\ readerCleared /\ readTags = {2}

DynamicAttachSafe_C6 ==
    [][\A v \in Nodes :
          (pc = "exec" /\ inner'[v] # inner[v]) =>
              /\ v \in SeqSet(Successors'[inner'[v]])
              /\ Level'[v] > Level'[inner'[v]]]_vars

\* F has just re-attached to I2, whose level was not below F's: F is at
\* level(I2) + 1 and re-enqueued.
DynamicAttachSafeWitness_C6 ==
    /\ shape = "flatten" /\ pc = "exec" /\ wpc[5] = "done" /\ repeated[5]
    /\ inner[5] = 4 /\ snap.Level[5] <= snap.Level[4]
    /\ 5 \in SuccSet(St, 4) /\ Level[5] = Level[4] + 1

\* C7: idempotent idle turn.  In a turn begun with no new input (and so in
\* each of two such turns back to back) no vertex Ticks and, up to the next
\* AddInput, every event buffer is as it was when the turn began.
IdleTurn_C7 ==
    idleRun >= 1 =>
        /\ \A v \in Nodes : tickCount[v] = 0
        /\ ~pending => events = snap.events

\* Two turns without input have run back to back after a turn that filled the
\* buffers of the diamond; the buffers still hold the events of that turn.
IdleTurnWitness_C7 ==
    /\ shape = "diamond" /\ pc = "idle" /\ idleRun = 2 /\ ~pending
    /\ events[1] # <<>> /\ events[4] # <<>>

\* A turn has ended and no input was submitted since.
TurnDone == pc = "idle" /\ turnId >= 1 /\ ~pending

\* C8: order independence within a level.  A turn whose level working sets
\* were executed one vertex after the other, in any order, ends in the same
\* post-turn state (levels, flags, wait-counts, event buffers) as the run in
\* ascending order from the same begin-of-turn state.
OrderIndependent_C8 ==
    (TurnDone /\ sequential) =>
        PostState(St) = PostState(RefRun(snap, sigVal, turnId))

\* Vertex p has produced no output in the current turn: an input that did not
\* change, or a vertex whose buffer holds no event of this turn.
NoOutput(p) ==
    IF IsInput(p) THEN ~changed[p]
    ELSE curTurnId[p] # turnId \/ events[p] = <<>>

WaitCountMarked_C10 ==
    pc \in {"loop", "exec"} =>
        \A v \in Nodes : marked[v] =>
            /\ tickedDone = {} =>
                   readyCount[v] = Cardinality({p \in Preds(St, v) : marked[p]})
            /\ readyCount[v] =
                   Cardinality({p \in Preds(St, v) : marked[p] /\ p \notin settled})

\* C11: turn completion.  Under a fair scheduler every turn that has begun
\* eventually returns, and whenever propagate has returned the scheduled
\* queue is empty and no vertex has its queued flag set.
TurnCompletes_C11 ==
    /\ (pc \in {"admit", "loop", "exec"}) ~> (pc = "idle")
    /\ [](pc = "idle" => scheduledNodes = {} /\ \A v \in Nodes : ~queued[v])

\* A turn has returned in which the flatten node F was re-attached and both F
\* and its successor D were re-enqueued and ran twice.
TurnCompletesWitness_C11 ==
    /\ shape = "flatten" /\ pc = "idle" /\ turnId >= 1
    /\ wasRepeated = {5, 6} /\ tickCount[5] = 2 /\ tickCount[6] = 2

\* The fields of vertex v the engine and the event nodes keep.
NodeFields(S, v) ==
    <<S.Level[v], S.NewLevel[v], S.readyCount[v], S.queued[v], S.marked[v],
      S.changed[v], S.repeated[v], S.shouldUpdate[v], S.events[v]>>

\* When the turn after an aborted one has returned: every vertex it marked
\* has run or was released unrun, its wait-count is back at zero, nothing is
\* queued, and no vertex ran that the turn did not mark.
NextTurnClean ==
    /\ \A v \in turnMarked : v \in settled /\ readyCount[v] = 0
    /\ scheduledNodes = {}
    /\ \A v \in Nodes : ~queued[v]
    /\ \A v \in Nodes : tickCount[v] > 0 => v \in turnMarked

\* C13: abort consistency.  When a failing transform has aborted a turn, the
\* vertices the turn had not marked are as they were when it began; and when
\* the next turn has returned, it has run every vertex it marked, all
\* wait-counts are balanced, and nothing is left queued or was run on behalf of
\* the aborted turn.
AbortConsistent_C13 ==
    /\ (pc = "idle" /\ abortedTurn = turnId /\ turnId > 0 /\ ~pending) =>
           \A v \in Nodes \ (turnMarked \cup subtreeRoots) :
               NodeFields(St, v) = NodeFields(snap, v)
    /\ (pc = "idle" /\ abortedTurn > 0 /\ turnId = abortedTurn + 1) => NextTurnClean

\* The vertices that have a Tick of their own.
NonInputs == {v \in Nodes : Def(v).kind \in {"op", "flat", "sync"}}

\* The flatten node v has switched its inner stream in the current turn.
Reattached(v) == Def(v).kind = "flat" /\ inner[v] # snap.inner[v]

\* One Tick of v: a Tick that re-attaches returns without a hook, with v
\* re-enqueued and the wait-counts of its successors as they were; any other
\* Tick goes on to on-node-pulse iff its buffer is not empty, else to
\* on-node-idle-pulse.
TickEnds(v) ==
    (pc = "exec" /\ wpc[v] = "tick" /\ tickCount'[v] = tickCount[v] + 1) =>
        IF inner'[v] # inner[v]
        THEN /\ wpc'[v] = "done" /\ hookCount' = hookCount
             /\ queued'[v] /\ \E e \in scheduledNodes' : e[1] = v
             /\ \A s \in SuccSet(St, v) : readyCount'[s] = readyCount[s]
        ELSE /\ wpc'[v] \in {"pulse", "idle"}
             /\ wpc'[v] = "pulse" <=> events'[v] # <<>>

\* A vertex never has more hooks than Ticks; a Tick that is about to call a
\* hook calls on-node-pulse iff the buffer is not empty.
HookPerTick ==
    \A v \in NonInputs :
        /\ hookCount[v] <= tickCount[v]
        /\ wpc[v] \in {"pulse", "idle"} => (wpc[v] = "pulse" <=> events[v] # <<>>)

ChangedInputs ==
    {v \in Nodes : \/ Def(v).kind = "src" /\ HasNewInput(snap, v)
                   \/ Def(v).kind = "var" /\ sigNext[v] # snap.sigVal[v]}

\* The vertices reachable from a changed input when the turn began.
Reachable == ChangedInputs \cup Descendants(snap, ChangedInputs)

\* Level, flags and wait-count of vertex v.
EngineFields(S, v) ==
    <<S.Level[v], S.NewLevel[v], S.WaitCount[v], S.readyCount[v], S.queued[v],
      S.marked[v], S.changed[v], S.repeated[v], S.shouldUpdate[v]>>

\* During propagation a vertex not reachable from a changed input is not
\* marked, not queued, not in a working set and has not Ticked, and its
\* level, flags and wait-count are as they were when the turn began.
Quiescent(v) ==
    /\ ~marked[v] /\ ~queued[v] /\ v \notin workSet /\ tickCount[v] = 0
    /\ \A e \in scheduledNodes : e[1] # v
    /\ EngineFields(St, v) = EngineFields(snap, v)

\* C15 (as stated): participation frame.  The marked vertices are those
\* reachable from the changed inputs; a vertex not reachable from a changed
\* input is quiescent and its event buffer is unchanged by the turn.
FrameAsStated_C15 ==
    pc \in {"loop", "exec"} =>
        /\ turnMarked \cup subtreeRoots = Reachable
        /\ \A v \in Nodes \ Reachable : Quiescent(v) /\ events[v] = snap.events[v]

\* C15 (amended): as stated, except for the event buffer: the buffer of a
\* vertex not reachable from a changed input is unchanged, or it held events
\* of an earlier turn and a participating vertex that reads it has emptied it
\* and set its last-seen turn-id to the current turn.
Frame_C15 ==
    pc \in {"loop", "exec"} =>
        /\ turnMarked \cup subtreeRoots = Reachable
        /\ \A v \in Nodes \ Reachable :
               /\ Quiescent(v)
               /\ \/ events[v] = snap.events[v]
                  \/ /\ events[v] = <<>> /\ curTurnId[v] = turnId
                     /\ \E w \in turnMarked : tickCount[w] > 0

\* In a turn in which only the outer signal O changed, the flatten node F
\* switched to I2; I2 is not reachable from O, it is not marked and did not
\* Tick, and F's read has emptied the events I2 held from an earlier turn.
FrameWitness_C15 ==
    /\ shape = "flatten" /\ pc = "loop" /\ ChangedInputs = {1}
    /\ turnMarked = {5, 6} /\ inner[5] = 4 /\ tickCount[5] = 2
    /\ snap.events[4] # <<>> /\ events[4] = <<>> /\ tickCount[4] = 0

\* C16: mark inconsistency detection.  No DecReadyCount takes a ready count
\* below zero: in no reachable state does a vertex's ready count hold the
\* value a decrement of zero wraps to.
NoWrap_C16 == \A v \in Nodes : readyCount[v] # DecReadyCount(0).count

\* C17: level-set independence.  When fetch-next-level has extracted a level
\* working set (none of its vertices has started yet), no vertex of the set
\* is a successor of another vertex of the set.
LevelSetIndependent_C17 ==
    (pc = "exec" /\ \A v \in workSet : wpc[v] = "tick") =>
        \A u \in workSet, v \in workSet : v \notin SuccSet(St, u)

\* The scheduled queue holds an entry of vertex v.
InQueue(v) == \E e \in scheduledNodes : e[1] = v

SingleClearAsStated_C19 == \A v \in Nodes : clearCount[v] <= 1

\* C19 (amended): in one turn the buffer of a vertex is cleared once by each
\* of the vertex's own Ticks (force = true) and at most once more, by a reader
\* (force = false) that is the first to use the buffer in the turn; a vertex
\* without a Tick of its own, or one that did not run, is cleared at most
\* once; and a buffer that was cleared carries the id of the current turn.
SingleClear_C19 ==
    /\ \A v \in NonInputs :
           tickCount[v] <= clearCount[v] /\ clearCount[v] <= tickCount[v] + 1
    /\ \A v \in Nodes \ NonInputs : clearCount[v] <= 1
    /\ \A v \in Nodes : clearCount[v] > 0 => curTurnId[v] = turnId

\* A turn has ended in which the flatten node F touched its new inner stream
\* I2 before I2 Ticked (two clears of I2, one Tick), F ran twice (two clears)
\* and the source I1 was cleared once, by F's read.
SingleClearWitness_C19 ==
    /\ shape = "flatten" /\ pc = "idle" /\ inner[5] = 4
    /\ tickCount[4] = 1 /\ clearCount[4] = 2
    /\ tickCount[5] = 2 /\ clearCount[5] = 2
    /\ tickCount[2] = 0 /\ clearCount[2] = 1

\* C20: SetCurrentTurn(turn, forceUpdate, noClear).  After a call on vertex
\* v: if v's last-seen turn-id differed from the turn's id or forceUpdate was
\* set, the last-seen id is the turn's id and the buffer is empty unless
\* noClear was set, in which case it is as before; otherwise last-seen id and
\* buffer are as before.  A freshly constructed vertex (last-seen id the
\* maximum unsigned value) takes the first branch.  No other vertex changes.
SetCurrentTurn_C20 ==
    pc = "called" =>
        LET v == lastCall.v
            first == snap.curTurnId[v] # turnId \/ lastCall.forceUpdate
        IN /\ first => /\ curTurnId[v] = turnId
                       /\ events[v] = IF lastCall.noClear THEN snap.events[v] ELSE <<>>
           /\ ~first => curTurnId[v] = snap.curTurnId[v] /\ events[v] = snap.events[v]
           /\ snap.curTurnId[v] = InitState.curTurnId[v] => curTurnId[v] = turnId
           /\ \A u \in Nodes \ {v} :
                  curTurnId[u] = snap.curTurnId[u] /\ events[u] = snap.events[u]

\* A forced call in the turn the vertex was last used in: the buffer it held
\* was emptied.
SetCurrentTurnWitness_C20 ==
    /\ pc = "called" /\ lastCall = [v |-> 1, forceUpdate |-> TRUE, noClear |-> FALSE]
    /\ snap.curTurnId[1] = turnId /\ snap.events[1] # <<>> /\ events[1] = <<>>

\* The events of source v that were added since its last successful
\* ApplyInput: the driver applies every source in every turn, so these are
\* the events submitted for the turn t being admitted.
AddedSince(v, t) == SelectSeq(events[v], LAMBDA e : e.t = t)

\* One ApplyInput call on the source v = NextInput: it reports a change (one
\* on-input-change: v becomes a root of the turn and each successor's
\* wait-count tracker is incremented once) iff v holds an event added since
\* its last successful ApplyInput; otherwise nothing changes; the buffer is
\* kept in either case.
ApplyInputStep ==
    (pc = "admit" /\ cursor' # cursor /\ Def(NextInput).kind = "src") =>
        LET v == NextInput
            new == AddedSince(v, turnId) # <<>>
        IN /\ events'[v] = events[v]
           /\ new <=> v \in subtreeRoots'
           /\ new => /\ changed'[v] /\ changedFlag'[v] /\ curTurnId'[v] = turnId
                     /\ \A s \in SuccSet(St, v) :
                            /\ readyCount'[s] = IncReadyCount(readyCount[s], WaitCount[s]).count
                            /\ shouldUpdate'[s] /\ queued'[s]
           /\ ~new => nodeVars' = nodeVars

\* One AddInput call: the first one after a successful ApplyInput discards the
\* events of the previous turn before it appends, a later one appends.
AddInputStep ==
    (pc = "idle" /\ added' # added) =>
        LET v == CHOOSE u \in Nodes : events'[u] # events[u]
            e == events'[v][Len(events'[v])]
        IN /\ Def(v).kind = "src"
           /\ ~changedFlag'[v]
           /\ events'[v] = IF changedFlag[v] THEN <<e>> ELSE Append(events[v], e)
           /\ \A u \in Nodes \ {v} : events'[u] = events[u]

\* C21: input admission.  ApplyInput reports a change and calls
\* on-input-change once iff the source holds an event added since its last
\* successful ApplyInput; a further ApplyInput without an AddInput in between
\* reports none, calls nothing and changes nothing; ApplyInput never discards
\* the pending events; the first AddInput after a successful ApplyInput
\* discards the events of the previous turn before appending.
InputAdmission_C21 == [][ApplyInputStep /\ AddInputStep]_vars

\* Second turn on two sources after three AddInput calls: A got one event,
\* was applied in the first turn and got no new input, so its ApplyInput
\* reported no change and kept the old event; B got one event in each turn,
\* the second replaced the first, and B was admitted again.
InputAdmissionWitness_C21 ==
    /\ shape = "twosrc" /\ turnId = 2 /\ pc = "admit" /\ cursor = 3
    /\ added = 3
    /\ changedFlag[1] /\ Len(events[1]) = 1 /\ events[1][1].t = 1
    /\ 1 \notin subtreeRoots
    /\ Len(snap.events[2]) = 1 /\ Len(events[2]) = 1 /\ events[2][1].t = 2
    /\ curTurnId[2] = 2 /\ subtreeRoots = {2}

\* The vertices whose Tick has started and not yet returned.
Running == {v \in Nodes : wpc[v] \in {"pulse", "idle"}}

\* The engine leaves or replaces the level working set and the turn goes on.
LeavesLevel == workSet # {} /\ workSet' # workSet /\ pc' \in {"loop", "exec"}

\* The Tick of v starts.
TickStarts(v) == tickCount'[v] # tickCount[v] /\ tickCount'[v] > 0

\* C23: level barrier.  Within a turn the engine leaves a level working set
\* (and so fetches the next one) only when the Tick of every vertex of the set
\* has returned, and a Tick starts only for a vertex of the current working
\* set, while no Tick of a vertex outside it is still running.
LevelBarrier_C23 ==
    [][/\ LeavesLevel => /\ Running = {}
                         /\ \A v \in workSet : tickCount[v] > 0 /\ wpc[v] = "done"
       /\ (scheduledNodes' # scheduledNodes /\ workSet' # workSet /\ workSet' # {})
              => Running = {} /\ workSet = {}
       /\ \A v \in Nodes : TickStarts(v) => v \in workSet /\ Running \subseteq workSet]_vars

\* The diamond: the level set {B, C} has been executed and joined, and the
\* Tick of D, in the next working set, is running.
LevelBarrierWitness_C23 ==
    /\ shape = "diamond" /\ pc = "exec"
    /\ workSet = {4} /\ 4 \in Running
    /\ {2, 3} \subseteq tickedDone
    /\ tickCount[2] = 1 /\ tickCount[3] = 1

\* The flatten vertex F of the graph Flatten, its outer signal O, the stream
\* I2 the signal can designate, and the source X that I2 merges.
FlatF == 5
FlatO == 1
FlatI2 == 4
FlatX == 3

\* The Tick of F that starts in this step finds the outer signal designating
\* a stream other than inner_, whose level is not below F's.
StaleSwitch ==
    /\ shape = "flatten" /\ pc = "exec" /\ wpc[FlatF] = "tick"
    /\ TickStarts(FlatF)
    /\ sigVal[FlatO] # inner[FlatF]
    /\ Level[sigVal[FlatO]] >= Level[FlatF]

\* After the dynamic attach: F has the level of the new inner stream plus one
\* and is re-enqueued at it; every descendant of F has level 1 + max
\* predecessor level, and one whose level changed while it was in the queue
\* is pushed again at its new level with repeated set.
AttachRaises ==
    StaleSwitch =>
        LET new == sigVal[FlatO]
            D == Descendants(St, {FlatF})
        IN /\ inner'[FlatF] = new
           /\ FlatF \in SeqSet(Successors'[new])
           /\ Level'[FlatF] = Level[new] + 1
           /\ <<FlatF, Level'[FlatF]>> \in scheduledNodes'
           /\ queued'[FlatF] /\ repeated'[FlatF] /\ shouldUpdate'[FlatF]
           /\ reenqCount'[FlatF] = reenqCount[FlatF] + 1
           /\ \A d \in D :
                  /\ Level'[d] = 1 + Max({Level'[p] : p \in Preds(St, d)})
                  /\ (Level'[d] # Level[d] /\ queued[d]) =>
                         /\ <<d, Level'[d]>> \in scheduledNodes'
                         /\ repeated'[d] /\ queued'[d]

\* F's level was raised in this turn and the body of its second Tick has run.
SecondRun ==
    /\ shape = "flatten" /\ pc = "exec"
    /\ Level[FlatF] > snap.Level[FlatF]
    /\ tickCount[FlatF] = 2 /\ wpc[FlatF] \in {"pulse", "idle"}

\* What I2 = merge(X) produces in the turn: the events submitted to X for it.
ProducedI2 == IF FlatX \in subtreeRoots THEN AddedSince(FlatX, turnId) ELSE <<>>

\* On its second execution F's buffer is what I2 produced in this turn.
SecondRunBuffer ==
    SecondRun => /\ inner[FlatF] = FlatI2
                 /\ events[FlatF] = ProducedI2
                 /\ \A i \in 1..Len(events[FlatF]) : events[FlatF][i].t = turnId

LevelOfPreds(v) ==
    IF Preds(St, v) = {} THEN 0 ELSE 1 + Max({Level[p] : p \in Preds(St, v)})

\* Between turns, the graph constructed.
TurnBoundary == pc = "idle"

ReturnedFalse == {p \in DOMAIN callResult : callResult[p] = "false"}
ReturnedTrue == {p \in DOMAIN callResult : callResult[p] = "true"}

\* A predecessor's call returns in this step, with the result res.
CallReturns(res) ==
    \E p \in DOMAIN callResult : callResult[p] = "none" /\ callResult'[p] = res

\* C26: exactly-one release.  With the ready count set to k >= 1 by
\* SetReadyCount, of the k DecReadyCount calls of the predecessors, in any
\* order, exactly one returns false, the one that takes the count from 1 to
\* 0, and k - 1 return true; with the count at 0 and WaitCount = k, of the k
\* IncReadyCount calls exactly one returns false, the one that finds k - 1.
\* So exactly one predecessor releases the vertex.
ExactlyOneRelease_C26 ==
    [][/\ Cardinality(ReturnedFalse') <= 1
       /\ PendingCalls' = {} =>
              /\ Cardinality(ReturnedFalse') = 1
              /\ Cardinality(ReturnedTrue') = WaitCount[RcNode] - 1
       /\ (pc = "dec" /\ CallReturns("false")) =>
              readyCount[RcNode] = 1 /\ readyCount'[RcNode] = 0
       /\ (pc = "dec" /\ CallReturns("true")) => readyCount[RcNode] > 1
       /\ (pc = "inc" /\ CallReturns("false")) =>
              readyCount[RcNode] = WaitCount[RcNode] - 1
       /\ (pc = "inc" /\ CallReturns("true")) =>
              readyCount[RcNode] < WaitCount[RcNode] - 1]_vars

\* Three predecessors have decremented a count set to 3; the second one made
\* the last call and is the one that got false.
ExactlyOneReleaseWitness_C26 ==
    /\ pc = "dec" /\ WaitCount[RcNode] = 3 /\ readyCount[RcNode] = 0
    /\ callResult = <<"true", "false", "true">>

====
